---- MODULE Spec2Model ----
(***************************************************************************)
(* A model of LLM.py: the LLMBase message preparation, the four backend    *)
(* variants with their credentials, and LLMManager.chat_with_models.       *)
(***************************************************************************)
EXTENDS Integers, Sequences, FiniteSets, TLC

(* ------------------------------ bounds -------------------------------- *)
MaxInst == 3
MaxHist == 2

(* ------------------------------ values -------------------------------- *)
Classes == {"LlamaModel", "GPTModel", "MistralModel", "NewModel"}
GroqClasses == {"LlamaModel", "MistralModel"}
Messages == {"hi", "yo"}
Prompts == {"sys", "be brief"}
Humans == {"h1", "h2"}
Assistants == {"a1", "a2"}
Turns == Humans \X Assistants
None == "None"
NoKey == 0

\* history=None is the absent history; a present history is a list of turns
NoHistory == [present |-> FALSE, turns |-> <<>>]
SomeHistory(ts) == [present |-> TRUE, turns |-> ts]
Histories == {NoHistory} \cup
             {SomeHistory(ts) : ts \in UNION {[1..k -> Turns] : k \in 0..MaxHist}}

\* Python truthiness of the history argument: None and [] are both falsy
Truthy(history) == history.present /\ Len(history.turns) > 0

(* -------------------------- LLMBase.prepare_messages ------------------ *)
Msg(role, content) == [role |-> role, content |-> content]

RECURSIVE AppendHistory(_, _)
AppendHistory(messages, turns) ==
    IF turns = <<>> THEN messages
    ELSE LET human == Head(turns)[1]
             assistant == Head(turns)[2]
         IN AppendHistory(
                Append(Append(messages, Msg("user", human)),
                       Msg("assistant", assistant)),
                Tail(turns))

\* a faulty variant: the new user message is appended before the history
PrepareMessagesNewFirst(message, prompt, history) ==
    LET m0 == <<Msg("system", prompt), Msg("user", message)>>
    IN IF Truthy(history) THEN AppendHistory(m0, history.turns) ELSE m0

PrepareMessages(message, prompt, history) ==
    LET m0 == <<Msg("system", prompt)>>
        m1 == IF Truthy(history) THEN AppendHistory(m0, history.turns) ELSE m0
    IN Append(m1, Msg("user", message))

(* ------------------------------ constructors -------------------------- *)
\* The process state the constructors act on: the heap of instances and the
\* module-level attribute openai.api_key.  ctor_key remembers the key an
\* instance was constructed with; client is the key held by self.client.
LlamaModel_init(st, key) ==
    [st EXCEPT !.insts = Append(@, [cls |-> "LlamaModel", ctor_key |-> key,
                                    client |-> key, api_key |-> NoKey])]

GPTModel_init(st, key) ==
    [insts |-> Append(st.insts, [cls |-> "GPTModel", ctor_key |-> key,
                                 client |-> NoKey, api_key |-> NoKey]),
     openai_api_key |-> key]

MistralModel_init(st, key) ==
    [st EXCEPT !.insts = Append(@, [cls |-> "MistralModel", ctor_key |-> key,
                                    client |-> key, api_key |-> NoKey])]

NewModel_init(st, key) ==
    [st EXCEPT !.insts = Append(@, [cls |-> "NewModel", ctor_key |-> key,
                                    client |-> NoKey, api_key |-> key])]

Construct(st, cls, key) ==
    CASE cls = "LlamaModel" -> LlamaModel_init(st, key)
      [] cls = "GPTModel" -> GPTModel_init(st, key)
      [] cls = "MistralModel" -> MistralModel_init(st, key)
      [] cls = "NewModel" -> NewModel_init(st, key)

\* the k-th instance constructed receives the API key k (all keys differ)
RECURSIVE ConstructAll(_, _, _)
ConstructAll(st, classes, k) ==
    IF k > Len(classes) THEN st
    ELSE ConstructAll(Construct(st, classes[k], k), classes, k + 1)

\* LLMManager.__init__: the manager keeps the list it is given
LLMManager_init(ms) == ms

(* ------------------------------ backends ------------------------------ *)
\* whether _call_model_api of the class goes to an external provider
HasTransport(cls) == cls # "NewModel"

\* the credential a provider call of the instance carries
KeyUsed(inst, global_key) ==
    IF inst.cls \in GroqClasses THEN inst.client ELSE global_key

Replies == {"r1", "r2"}
BackendErrors == {"AuthenticationError", "APIConnectionError"}
Returned(text) == [kind |-> "returned", out |-> text]
Raised(err) == [kind |-> "raised", out |-> err]

\* what _call_model_api of an instance can do
Outcomes(inst) ==
    IF inst.cls = "NewModel" THEN {Returned("New Model's response")}
    ELSE {Returned(r) : r \in Replies} \cup {Raised(e) : e \in BackendErrors}

(* --------------------- LLMManager.chat_with_models -------------------- *)
InsufficientModelsError == "ValueError: At least two models are required to chat."
SampleError == "ValueError: Sample larger than population or is negative"

TooFewModelsOffByOne(ms) == Len(ms) < 1

TooFewModels(ms) == Len(ms) < 2

\* a faulty variant: sampling with replacement
SampleWithReplacement(ms) == (1..Len(ms)) \X (1..Len(ms))

\* random.sample(self.models, 2): the ordered pairs of different positions
Sample2(ms) == {p \in (1..Len(ms)) \X (1..Len(ms)) : p[1] # p[2]}

\* a faulty variant: the selection pops the chosen elements off the list
PopulationAfterPop(ms, pick) ==
    SelectSeq(ms, LAMBDA m : m # ms[pick[1]] /\ m # ms[pick[2]])

\* random.sample leaves its population as it was
PopulationAfterSample(ms, pick) == ms

\* a faulty variant: a failed generation is swallowed and the loop goes on
PropagatesNever(outcome) == FALSE

\* no handler surrounds generate_response: what it raises leaves the call
Propagates(outcome) == outcome.kind = "raised"

\* a faulty variant: the line is printed also for a generation that raised
StdoutAfterAlways(out, model_name, outcome) == Append(out, model_name)

\* print follows generate_response and is skipped when that raises
StdoutAfter(out, model_name, outcome) ==
    IF outcome.kind = "returned" THEN Append(out, model_name) ELSE out

\* a faulty variant: the responses land in the other model's slot
StoreSwapped(fr, i, model_name, response) ==
    IF i = 0
    THEN [fr EXCEPT !.model_a_name = model_name, !.model_b_response = response]
    ELSE [fr EXCEPT !.model_b_name = model_name, !.model_a_response = response]

\* the if/else that stores name and response of iteration i
Store(fr, i, model_name, response) ==
    IF i = 0
    THEN [fr EXCEPT !.model_a_name = model_name, !.model_a_response = response]
    ELSE [fr EXCEPT !.model_b_name = model_name, !.model_b_response = response]

\* the arguments a comparison is called with
ChatInputs ==
    {[message |-> "hi", prompt |-> "sys", history |-> NoHistory],
     [message |-> "yo", prompt |-> "be brief",
      history |-> SomeHistory(<<<<"h1", "a1">>, <<"h2", "a2">>>>)]}

NoInput == [message |-> None, prompt |-> None, history |-> NoHistory]
NoResult == [kind |-> "none", err |-> None, model_a_name |-> None,
             model_b_name |-> None, model_a_response |-> None,
             model_b_response |-> None]
NoFrame == [args |-> NoInput, picked |-> <<>>, selected |-> <<>>, i |-> 0,
            model_a_name |-> None, model_a_response |-> None,
            model_b_name |-> None, model_b_response |-> None]
NoLast == [kind |-> "none"]

VARIABLES
    insts,           \* the model instances, in construction order
    openai_api_key,  \* the module attribute openai.api_key
    models,          \* LLMManager.models: references into insts
    pc,              \* "idle", "loop" (top of the for loop) or "api"
    frame,           \* the locals of the running chat_with_models call
    genLog,          \* the generate_response invocations of the current call
    apiLog,          \* the provider calls of the current call, with their key
    stdout,          \* the lines printed by the current call
    result,          \* how the most recent call ended
    last,            \* how the call before it ended
    pm_args,         \* arguments of a direct prepare_messages call
    pm_ret           \* its return value

vars == <<insts, openai_api_key, models, pc, frame, genLog, apiLog, stdout,
          result, last, pm_args, pm_ret>>

NotCalled == [done |-> FALSE, messages |-> <<>>]

ClassLists == UNION {[1..k -> Classes] : k \in 0..MaxInst}

\* the process after constructing one instance per entry of classes and a
\* manager over all of them
InitManager(classes) ==
    LET st == ConstructAll([insts |-> <<>>, openai_api_key |-> NoKey], classes, 1)
    IN /\ insts = st.insts
       /\ openai_api_key = st.openai_api_key
       /\ models = LLMManager_init([k \in 1..Len(classes) |-> k])
       /\ pc = "idle"
       /\ frame = NoFrame
       /\ genLog = <<>>
       /\ apiLog = <<>>
       /\ stdout = <<>>
       /\ result = NoResult
       /\ last = NoLast

Init ==
    /\ \E classes \in ClassLists : InitManager(classes)
    /\ pm_args = NoInput
    /\ pm_ret = NotCalled

Summary(res) == [kind |-> res.kind]

\* chat_with_models, up to the raise of the length check (or of the sample)
ChatRaise(args) ==
    /\ pc = "idle"
    /\ TooFewModels(models) \/ Sample2(models) = {}
    /\ result' = [NoResult EXCEPT !.kind = "raised",
                    !.err = IF TooFewModels(models) THEN InsufficientModelsError
                            ELSE SampleError]
    /\ last' = Summary(result)
    /\ frame' = [NoFrame EXCEPT !.args = args]
    /\ genLog' = <<>>
    /\ apiLog' = <<>>
    /\ stdout' = <<>>
    /\ UNCHANGED <<insts, openai_api_key, models, pc, pm_args, pm_ret>>

\* chat_with_models, up to the selection of the two models
ChatSelect(args, pick) ==
    /\ pc = "idle"
    /\ ~TooFewModels(models)
    /\ pick \in Sample2(models)
    /\ frame' = [NoFrame EXCEPT !.args = args, !.picked = pick,
                   !.selected = <<models[pick[1]], models[pick[2]]>>]
    /\ models' = PopulationAfterSample(models, pick)
    /\ pc' = "loop"
    /\ result' = NoResult
    /\ last' = Summary(result)
    /\ genLog' = <<>>
    /\ apiLog' = <<>>
    /\ stdout' = <<>>
    /\ UNCHANGED <<insts, openai_api_key, pm_args, pm_ret>>

\* one loop iteration up to the provider call: generate_response prepares
\* the messages and enters _call_model_api
GenBegin ==
    /\ pc = "loop"
    /\ frame.i < 2
    /\ LET id == frame.selected[frame.i + 1]
           inst == insts[id]
           a == frame.args
       IN /\ genLog' = Append(genLog,
                [i |-> frame.i, model |-> id, args |-> a,
                 messages |-> PrepareMessages(a.message, a.prompt, a.history),
                 status |-> "running", out |-> None])
          /\ apiLog' = IF HasTransport(inst.cls)
                       THEN Append(apiLog, [model |-> id,
                                            key |-> KeyUsed(inst, openai_api_key)])
                       ELSE apiLog
    /\ pc' = "api"
    /\ UNCHANGED <<insts, openai_api_key, models, frame, stdout, result, last,
                   pm_args, pm_ret>>

\* the provider call ends: the rest of the iteration, or the exception
GenEnd(outcome) ==
    /\ pc = "api"
    /\ LET id == frame.selected[frame.i + 1]
           inst == insts[id]
           model_name == inst.cls
           response == IF outcome.kind = "returned" THEN outcome.out ELSE None
       IN /\ outcome \in Outcomes(inst)
          /\ genLog' = [genLog EXCEPT ![Len(genLog)].status = outcome.kind,
                                      ![Len(genLog)].out = outcome.out]
          /\ stdout' = StdoutAfter(stdout, model_name, outcome)
          /\ IF Propagates(outcome)
             THEN /\ result' = [NoResult EXCEPT !.kind = "raised",
                                                !.err = outcome.out]
                  /\ pc' = "idle"
                  /\ UNCHANGED frame
             ELSE /\ frame' = [Store(frame, frame.i, model_name, response)
                                 EXCEPT !.i = frame.i + 1]
                  /\ pc' = "loop"
                  /\ UNCHANGED result
    /\ UNCHANGED <<insts, openai_api_key, models, apiLog, last, pm_args, pm_ret>>

\* the loop is over: return the tuple
Return ==
    /\ pc = "loop"
    /\ frame.i = 2
    /\ result' = [kind |-> "returned", err |-> None,
                  model_a_name |-> frame.model_a_name,
                  model_b_name |-> frame.model_b_name,
                  model_a_response |-> frame.model_a_response,
                  model_b_response |-> frame.model_b_response]
    /\ pc' = "idle"
    /\ UNCHANGED <<insts, openai_api_key, models, frame, genLog, apiLog,
                   stdout, last, pm_args, pm_ret>>

Next ==
    \/ \E args \in ChatInputs : ChatRaise(args)
    \/ \E args \in ChatInputs : \E pick \in (1..Len(models)) \X (1..Len(models)) :
          ChatSelect(args, pick)
    \/ GenBegin
    \/ \E outcome \in {Returned(r) : r \in Replies \cup {"New Model's response"}}
                      \cup {Raised(e) : e \in BackendErrors} : GenEnd(outcome)
    \/ Return

Spec == Init /\ [][Next]_vars

(* ------------- a direct call of prepare_messages ---------------------- *)
InitPM ==
    /\ InitManager(<<>>)
    /\ pm_args \in [message : Messages, prompt : Prompts, history : Histories]
    /\ pm_ret = NotCalled

CallPrepareMessages ==
    /\ ~pm_ret.done
    /\ pm_ret' = [done |-> TRUE,
                  messages |-> PrepareMessages(pm_args.message, pm_args.prompt,
                                               pm_args.history)]
    /\ UNCHANGED <<pm_args, insts, openai_api_key, models, pc, frame, genLog,
                   apiLog, stdout, result, last>>

NextPM == CallPrepareMessages

SpecPM == InitPM /\ [][NextPM]_vars

(* ======================= the claims, one by one ======================= *)

\* C1: prepare_messages returns one system message carrying prompt, then for
\* each history turn in order a user and an assistant message, then the user
\* message carrying message; 2 + 2*len(history) entries; an absent history
\* gives what an empty one gives.
C1_PrepareMessagesShape ==
    pm_ret.done =>
        LET m == pm_ret.messages
            h == pm_args.history.turns
            n == Len(h)
        IN /\ Len(m) = 2 + 2 * n
           /\ m[1] = [role |-> "system", content |-> pm_args.prompt]
           /\ \A k \in 1..n :
                 /\ m[2 * k] = [role |-> "user", content |-> h[k][1]]
                 /\ m[2 * k + 1] = [role |-> "assistant", content |-> h[k][2]]
           /\ m[Len(m)] = [role |-> "user", content |-> pm_args.message]
           /\ ~pm_args.history.present =>
                 m = PrepareMessages(pm_args.message, pm_args.prompt,
                                     SomeHistory(<<>>))

C1_Witness ==
    /\ pm_ret.done
    /\ Len(pm_args.history.turns) = 2
    /\ pm_args.history.turns[1] # pm_args.history.turns[2]

\* C2: on a manager with fewer than 2 models every call ends by raising the
\* manager's own error, with no generate_response invoked, no provider call
\* made and nothing printed.
C2_TooFewModelsRaises ==
    Len(models) < 2 =>
        /\ pc = "idle"
        /\ genLog = <<>>
        /\ apiLog = <<>>
        /\ stdout = <<>>
        /\ result.kind # "returned"
        /\ result.kind = "raised" => result.err = InsufficientModelsError
        /\ \A args \in ChatInputs : ENABLED ChatRaise(args)

C2_Witness ==
    /\ Len(models) = 1
    /\ result.kind = "raised"
    /\ last.kind = "raised"

\* C3: the two names returned by one call are always distinct.
C3_NamesDistinct ==
    result.kind = "returned" => result.model_a_name # result.model_b_name

\* C4: when generate_response of a selected instance raises, the call ends
\* with that same error; it returns no tuple, and a returned tuple has no
\* None field; no model other than the two selected is ever invoked.
C4_FailurePropagates ==
    /\ \A k \in 1..Len(genLog) :
          /\ genLog[k].model = frame.selected[genLog[k].i + 1]
          /\ genLog[k].status = "raised" =>
                /\ k = Len(genLog)
                /\ pc = "idle"
                /\ result.kind = "raised"
                /\ result.err = genLog[k].out
    /\ Len(genLog) <= 2
    /\ result.kind = "returned" =>
          /\ None \notin {result.model_a_name, result.model_b_name,
                          result.model_a_response, result.model_b_response}
          /\ \A k \in 1..Len(genLog) : genLog[k].status = "returned"

C4_Witness ==
    /\ Len(genLog) = 2
    /\ genLog[2].status = "raised"
    /\ result.kind = "raised"
    /\ result.err = "APIConnectionError"

\* C5: with n >= 2 models a call selects 2 members of the collection at
\* different positions, and every ordered pair of different positions can be
\* selected.
C5_SampleWithoutReplacement ==
    /\ frame.picked # <<>> =>
          /\ Len(frame.picked) = 2 /\ Len(frame.selected) = 2
          /\ frame.picked[1] \in 1..Len(models)
          /\ frame.picked[2] \in 1..Len(models)
          /\ frame.picked[1] # frame.picked[2]
          /\ frame.selected[1] = models[frame.picked[1]]
          /\ frame.selected[2] = models[frame.picked[2]]
          /\ frame.selected[1] # frame.selected[2]
    /\ (pc = "idle" /\ Len(models) >= 2) =>
          \A a, b \in 1..Len(models) :
              a # b => \A args \in ChatInputs : ENABLED ChatSelect(args, <<a, b>>)

C5_Witness ==
    /\ Len(models) = 3
    /\ frame.picked = <<3, 1>>
    /\ result.kind = "returned"

\* C6: both selected instances are invoked with the arguments the caller
\* passed, hence with the same transcript, and the returned tuple pairs the
\* class name of the first selected instance with its response and that of
\* the second with its response.
C6_NamesPairedWithResponses ==
    /\ \A k \in 1..Len(genLog) :
          /\ genLog[k].args = frame.args
          /\ genLog[k].messages = genLog[1].messages
          /\ genLog[k].messages[Len(genLog[k].messages)]
                = [role |-> "user", content |-> frame.args.message]
          /\ genLog[k].messages[1]
                = [role |-> "system", content |-> frame.args.prompt]
          /\ Len(genLog[k].messages) = 2 + 2 * Len(frame.args.history.turns)
    /\ result.kind = "returned" =>
          /\ Len(genLog) = 2
          /\ genLog[1].model = frame.selected[1]
          /\ genLog[2].model = frame.selected[2]
          /\ result.model_a_name = insts[frame.selected[1]].cls
          /\ result.model_b_name = insts[frame.selected[2]].cls
          /\ result.model_a_response = genLog[1].out
          /\ result.model_b_response = genLog[2].out

C6_Witness ==
    /\ result.kind = "returned"
    /\ result.model_a_name # result.model_b_name
    /\ result.model_a_response = "r2"
    /\ result.model_b_response = "r1"
    /\ frame.args.message = "yo"

\* C7: every provider call made by an instance carries the key that instance
\* was constructed with.
C7_OwnCredential ==
    \A k \in 1..Len(apiLog) :
        apiLog[k].key = insts[apiLog[k].model].ctor_key

\* C8: no step of a call, returning or raising, changes the manager's
\* collection, and on a manager of exactly 2 models every call that returns,
\* whatever the calls before it did, yields the names of those two models in
\* one order or the other.
C8_ModelsUnchanged ==
    /\ [][models' = models]_vars
    /\ [](Len(models) = 2 /\ result.kind = "returned" =>
             \/ <<result.model_a_name, result.model_b_name>>
                      = <<insts[models[1]].cls, insts[models[2]].cls>>
             \/ <<result.model_a_name, result.model_b_name>>
                      = <<insts[models[2]].cls, insts[models[1]].cls>>)

C8_Witness ==
    /\ Len(models) = 2
    /\ result.kind = "returned"
    /\ last.kind = "returned"
    /\ result.model_a_name # result.model_b_name

\* C9: at most one generation is in progress at a time; the generation of B
\* starts only after that of A has returned; when A raises, B is never
\* invoked and no provider call is made for it.
C9_Sequential ==
    /\ Cardinality({k \in 1..Len(genLog) : genLog[k].status = "running"}) <= 1
    /\ \A k \in 1..Len(genLog) :
          /\ genLog[k].i = k - 1
          /\ genLog[k].status = "running" => (k = Len(genLog) /\ pc = "api")
          /\ k > 1 => genLog[k - 1].status = "returned"
    /\ (Len(genLog) >= 1 /\ genLog[1].status = "raised") =>
          /\ Len(genLog) = 1
          /\ \A j \in 1..Len(apiLog) : apiLog[j].model = frame.selected[1]
    /\ Len(apiLog) <= Len(genLog)

C9_Witness ==
    /\ Len(genLog) = 2
    /\ genLog[2].status = "running"
    /\ Len(apiLog) = 2

\* C10: one line is printed per generation that returned, naming its model,
\* before the next generation begins: 2 lines (A's then B's) when the call
\* returns, none when A raises, A's alone when B raises.
C10_OneEventPerGeneration ==
    /\ Len(stdout) = Cardinality({k \in 1..Len(genLog) :
                                     genLog[k].status = "returned"})
    /\ \A k \in 1..Len(stdout) :
          /\ genLog[k].status = "returned"
          /\ stdout[k] = insts[genLog[k].model].cls
    /\ result.kind = "returned" =>
          stdout = <<result.model_a_name, result.model_b_name>>
    /\ (result.kind = "raised" /\ Len(genLog) = 1) => stdout = <<>>
    /\ (result.kind = "raised" /\ Len(genLog) = 2) =>
          stdout = <<insts[frame.selected[1]].cls>>

C10_Witness ==
    /\ result.kind = "raised"
    /\ Len(genLog) = 2
    /\ stdout = <<"GPTModel">>

====
